---------------------------- MODULE Spec2Model ----------------------------
(***************************************************************************)
(* A model of currency_parser.py: get_currency_rate (one HTTP GET, the XML *)
(* records parsed into a date-sorted table), analyze_currency_data,        *)
(* plot_currency_rate, and the two entry points: main() (argparse driven)  *)
(* and the `if __name__ == "__main__"` block (USD then EUR over 30 days).  *)
(*                                                                         *)
(* Two specifications share the variables:                                 *)
(*   SpecParse - a direct call of get_currency_rate on a response drawn    *)
(*               from a bounded set, followed by analyze_currency_data;    *)
(*   Spec      - the two entry points, step by step.                       *)
(***************************************************************************)
EXTENDS Integers, Sequences, FiniteSets, TLC

VARIABLES entry, args, pc, response, df, df_usd, df_eur, summary, log

vars == <<entry, args, pc, response, df, df_usd, df_eur, summary, log>>

----------------------------------------------------------------------------
(* Bounds of the model *)

\* most Record elements in a response handed to a direct call (SpecParse)
MaxRecords == 3

\* most Record elements in a response received by an entry point (Spec)
MaxPipeRecords == 2

\* fraction digits kept of a rate; a rate r is held as the integer r * Scale
FracDigits == 2

----------------------------------------------------------------------------
(* Values *)

RECURSIVE Pow10(_)
Pow10(n) == IF n = 0 THEN 1 ELSE 10 * Pow10(n - 1)

Scale == Pow10(FracDigits)

\* Python's None and a pandas DataFrame, as one comparable shape
None == [isNone |-> TRUE, rows |-> <<>>]

DataFrame(rows) == [isNone |-> FALSE, rows |-> rows]

\* the Date attribute of a Record: absent, or the three dot-separated fields
NoDateAttr == [present |-> FALSE, d |-> 0, m |-> 0, y |-> 0]

DateText(d, m, y) == [present |-> TRUE, d |-> d, m |-> m, y |-> y]

\* the Value child of a Record: absent, or its text as a sequence of characters
NoValueElem == [present |-> FALSE, text |-> <<>>]

ValueText(t) == [present |-> TRUE, text |-> t]

\* Date attributes the modelled provider may send
DateAttrs ==
    { DateText(31, 12, 2023), DateText(1, 1, 2024), DateText(30, 2, 2024), NoDateAttr }

\* Value elements the modelled provider may send: "75,5", "76", "7,5,1", none
ValueElems ==
    { ValueText(<<"7", "5", ",", "5">>), ValueText(<<"7", "6">>),
      ValueText(<<"7", ",", "5", ",", "1">>), NoValueElem }

Records == [date : DateAttrs, value : ValueElems]

RECURSIVE SeqsUpTo(_, _)
SeqsUpTo(S, n) ==
    IF n = 0 THEN { <<>> }
    ELSE LET shorter == SeqsUpTo(S, n - 1)
         IN  shorter \cup { Append(s, x) : s \in { t \in shorter : Len(t) = n - 1 }, x \in S }

\* what requests.get / raise_for_status / ET.fromstring can hand to the parser
HttpError == [kind |-> "http_error", records |-> <<>>]

NotXml == [kind |-> "not_xml", records |-> <<>>]

XmlDoc(recs) == [kind |-> "xml", records |-> recs]

NoResponse == [kind |-> "none", records |-> <<>>]

Responses(n) == { HttpError, NotXml } \cup { XmlDoc(r) : r \in SeqsUpTo(Records, n) }

----------------------------------------------------------------------------
(* get_currency_rate: the parse of one record *)

Digits == { "0", "1", "2", "3", "4", "5", "6", "7", "8", "9" }

DigitVal(c) ==
    CASE c = "0" -> 0 [] c = "1" -> 1 [] c = "2" -> 2 [] c = "3" -> 3 [] c = "4" -> 4
      [] c = "5" -> 5 [] c = "6" -> 6 [] c = "7" -> 7 [] c = "8" -> 8 [] c = "9" -> 9

\* str.replace(',', '.')
ReplaceComma(t) == [i \in 1..Len(t) |-> IF t[i] = "," THEN "." ELSE t[i]]

RECURSIVE DigitsValue(_)
DigitsValue(t) ==
    IF t = <<>> THEN 0
    ELSE 10 * DigitsValue(SubSeq(t, 1, Len(t) - 1)) + DigitVal(t[Len(t)])

\* float(s) on a string of digits with at most one period; the value times Scale
ParseFloat(s) ==
    LET dots  == { i \in 1..Len(s) : s[i] = "." }
        wellFormed ==
            /\ \A i \in 1..Len(s) : s[i] \in Digits \cup { "." }
            /\ Cardinality(dots) <= 1
            /\ \E i \in 1..Len(s) : s[i] \in Digits
        dot   == IF dots = {} THEN Len(s) + 1 ELSE CHOOSE i \in dots : TRUE
        whole == SubSeq(s, 1, dot - 1)
        frac  == SubSeq(s, dot + 1, Len(s))
    IN  IF wellFormed /\ Len(frac) <= FracDigits
        THEN [ok |-> TRUE,
              val |-> DigitsValue(whole) * Scale
                        + DigitsValue(frac) * Pow10(FracDigits - Len(frac))]
        ELSE [ok |-> FALSE, val |-> 0]

IsLeap(y) == (y % 4 = 0 /\ y % 100 # 0) \/ y % 400 = 0

DaysInMonth(m, y) ==
    IF m = 2 THEN (IF IsLeap(y) THEN 29 ELSE 28)
    ELSE IF m \in { 4, 6, 9, 11 } THEN 30 ELSE 31

\* datetime.strptime(date, '%d.%m.%Y'); a datetime is held as <<year, month, day>>
Strptime(a) ==
    IF /\ a.present
       /\ a.y \in 1..9999
       /\ a.m \in 1..12
       /\ a.d \in 1..DaysInMonth(a.m, a.y)
    THEN [ok |-> TRUE, val |-> <<a.y, a.m, a.d>>]
    ELSE [ok |-> FALSE, val |-> <<0, 0, 0>>]

\* the body of the for loop: one row, or the exception that ends the call
ParseRecord(rec) ==
    IF ~rec.value.present
    THEN [ok |-> FALSE, row |-> [date |-> <<0, 0, 0>>, rate |-> 0]]
    ELSE LET rate == ParseFloat(ReplaceComma(rec.value.text))
             date == Strptime(rec.date)
         IN  IF date.ok /\ rate.ok
             THEN [ok |-> TRUE, row |-> [date |-> date.val, rate |-> rate.val]]
             ELSE [ok |-> FALSE, row |-> [date |-> <<0, 0, 0>>, rate |-> 0]]

\* a loop that skips a record it cannot parse instead of raising
RECURSIVE ParseRecordsSkipBad(_)
ParseRecordsSkipBad(recs) ==
    IF recs = <<>> THEN [ok |-> TRUE, data |-> <<>>]
    ELSE LET first == ParseRecord(Head(recs))
             rest  == ParseRecordsSkipBad(Tail(recs))
         IN  [ok |-> TRUE,
              data |-> (IF first.ok THEN <<first.row>> ELSE <<>>) \o rest.data]

\* the for loop over root.findall('Record'): every row, or the first exception
RECURSIVE ParseRecords(_)
ParseRecords(recs) ==
    IF recs = <<>> THEN [ok |-> TRUE, data |-> <<>>]
    ELSE LET first == ParseRecord(Head(recs))
             rest  == ParseRecords(Tail(recs))
         IN  IF first.ok /\ rest.ok
             THEN [ok |-> TRUE, data |-> <<first.row>> \o rest.data]
             ELSE [ok |-> FALSE, data |-> <<>>]

----------------------------------------------------------------------------
(* get_currency_rate: the sort and the return value *)

\* datetime comparison
DateLeq(a, b) ==
    \/ a[1] < b[1]
    \/ a[1] = b[1] /\ a[2] < b[2]
    \/ a[1] = b[1] /\ a[2] = b[2] /\ a[3] <= b[3]

IsSortedByDate(rows) ==
    \A i \in 1..(Len(rows) - 1) : DateLeq(rows[i].date, rows[i + 1].date)

\* the frame left in response order (the sort dropped)
SortValuesDropped(data) == { data }

\* df.sort_values('date').reset_index(drop=True): the default kind is quicksort,
\* which is not stable, so rows of equal date may come out in either order
SortValues(data) ==
    { rows \in { [i \in 1..Len(data) |-> data[p[i]]] : p \in Permutations(1..Len(data)) } :
        IsSortedByDate(rows) }

\* a get_currency_rate whose sort accepts a frame without rows
GetCurrencyRateEmptyFrame(resp) ==
    IF resp.kind # "xml" THEN { None }
    ELSE LET parsed == ParseRecords(resp.records)
         IN  IF ~parsed.ok
             THEN { None }
             ELSE { DataFrame(rows) : rows \in SortValues(parsed.data) }

\* every value get_currency_rate can return for a response; pd.DataFrame([]) has
\* no 'date' column, so sort_values raises KeyError and the except returns None
GetCurrencyRate(resp) ==
    IF resp.kind # "xml" THEN { None }
    ELSE LET parsed == ParseRecords(resp.records)
         IN  IF ~parsed.ok \/ parsed.data = <<>>
             THEN { None }
             ELSE { DataFrame(rows) : rows \in SortValues(parsed.data) }

----------------------------------------------------------------------------
(* analyze_currency_data *)

RECURSIVE GCD(_, _)
GCD(a, b) == IF b = 0 THEN a ELSE GCD(b, a % b)

Abs(n) == IF n < 0 THEN -n ELSE n

\* the real number n / d (d > 0), in lowest terms
Frac(n, d) ==
    LET g == GCD(Abs(n), d)
    IN  [num |-> n \div g, den |-> d \div g]

RECURSIVE SumRates(_)
SumRates(rows) == IF rows = <<>> THEN 0 ELSE Head(rows).rate + SumRates(Tail(rows))

NoSummary ==
    [computed |-> FALSE, min |-> 0, max |-> 0, mean |-> Frac(0, 1), last |-> 0,
     change |-> 0, change_percent |-> Frac(0, 1)]

\* an analysis that takes the change relative to the last rate
AnalyzeRelativeToLast(d) ==
    IF d.isNone \/ d.rows = <<>> THEN NoSummary
    ELSE LET rows   == d.rows
             rates  == { rows[i].rate : i \in 1..Len(rows) }
             change == rows[Len(rows)].rate - rows[1].rate
         IN  [computed |-> TRUE,
              min  |-> CHOOSE r \in rates : \A q \in rates : r <= q,
              max  |-> CHOOSE r \in rates : \A q \in rates : r >= q,
              mean |-> Frac(SumRates(rows), Len(rows) * Scale),
              last |-> rows[Len(rows)].rate,
              change |-> change,
              change_percent |-> Frac(change * 100, rows[Len(rows)].rate)]

\* what analyze_currency_data prints; rates are positive, so no division by zero
AnalyzeCurrencyData(d) ==
    IF d.isNone \/ d.rows = <<>> THEN NoSummary
    ELSE LET rows   == d.rows
             rates  == { rows[i].rate : i \in 1..Len(rows) }
             change == rows[Len(rows)].rate - rows[1].rate
         IN  [computed |-> TRUE,
              min  |-> CHOOSE r \in rates : \A q \in rates : r <= q,
              max  |-> CHOOSE r \in rates : \A q \in rates : r >= q,
              mean |-> Frac(SumRates(rows), Len(rows) * Scale),
              last |-> rows[Len(rows)].rate,
              change |-> change,
              change_percent |-> Frac(change * 100, rows[1].rate)]

----------------------------------------------------------------------------
(* SpecParse: get_currency_rate and analyze_currency_data called directly *)

NoArgs == [currency |-> "", days |-> 0, output |-> ""]

InitParse ==
    /\ entry = "call"
    /\ args = NoArgs
    /\ \/ pc = "call_get" /\ response \in Responses(MaxRecords) /\ df = None
       \/ pc = "call_analyze" /\ response = NoResponse /\ df = DataFrame(<<>>)
    /\ df_usd = None
    /\ df_eur = None
    /\ summary = NoSummary
    /\ log = <<>>

\* df = get_currency_rate(...) with the response the provider gave
CallGetCurrencyRate ==
    /\ pc = "call_get"
    /\ df' \in GetCurrencyRate(response)
    /\ pc' = "call_analyze"
    /\ UNCHANGED <<entry, args, response, df_usd, df_eur, summary, log>>

\* analyze_currency_data(df)
CallAnalyze ==
    /\ pc = "call_analyze"
    /\ summary' = AnalyzeCurrencyData(df)
    /\ pc' = "call_done"
    /\ UNCHANGED <<entry, args, response, df, df_usd, df_eur, log>>

NextParse == CallGetCurrencyRate \/ CallAnalyze

SpecParse == InitParse /\ [][NextParse]_vars

----------------------------------------------------------------------------
(* Program constants *)

\* main's CURRENCY_CODES dictionary, also the choices of --currency
CurrencySymbols == { "USD", "EUR", "GBP", "CNY" }

CURRENCY_CODES(c) ==
    CASE c = "USD" -> "R01235" [] c = "EUR" -> "R01239"
      [] c = "GBP" -> "R01035" [] c = "CNY" -> "R01375"

\* the day count of the two calls of the __main__ block
ScriptDays == 30

\* datetime.timedelta accepts at most this many days, either sign
TimedeltaMaxDays == 999999999

\* datetime.max.toordinal(): the last day a datetime can hold
MaxOrdinal == 3652059

\* str.lower() on the currency symbols
Lower(c) ==
    CASE c = "USD" -> "usd" [] c = "EUR" -> "eur" [] c = "GBP" -> "gbp" [] c = "CNY" -> "cny"

\* the file name without the lower()
CsvFilenameAsTyped(c) == c \o "_rates.csv"

\* f"{args.currency.lower()}_rates.csv"
CsvFilename(c) == Lower(c) \o "_rates.csv"

\* f'{args.currency}/RUB'
CurrencyName(c) == c \o "/RUB"

----------------------------------------------------------------------------
(* Inputs of the entry points *)

\* --currency values tried; "JPY" is outside the choices
CurrencyInputs == CurrencySymbols \cup { "JPY" }

\* --days values tried (type=int accepts every integer)
DaysInputs == { -1, 0, 30, 1000000000 }

\* --output values tried: the empty string and the default
OutputInputs == { "", "currency_chart.png" }

\* datetime.now().toordinal() values tried (2026-11-03)
NowOrdinals == { 739923 }

----------------------------------------------------------------------------
(* The steps the entry points call *)

\* end_date - timedelta(days=days), evaluated before the try block: OverflowError
\* when the day count or the resulting date is out of range
StartDateOk(now, days) ==
    /\ days >= -TimedeltaMaxDays
    /\ days <= TimedeltaMaxDays
    /\ now - days >= 1
    /\ now - days <= MaxOrdinal

\* one call of get_currency_rate from an entry point: it raises before the
\* request, or performs the request once and returns a frame or None
CallOutcomes(days) ==
    UNION { IF StartDateOk(now, days)
            THEN { [raised |-> FALSE, result |-> r] :
                     r \in UNION { GetCurrencyRate(resp) : resp \in Responses(MaxPipeRecords) } }
            ELSE { [raised |-> TRUE, result |-> None] }
          : now \in NowOrdinals }

\* plot_currency_rate(d, name, save_path): d['date'] raises on None and on a
\* frame without rows before anything is saved; savefig runs only for a
\* non-empty save_path and may fail on an unwritable path
PlotCurrencyRate(d, save_path) ==
    IF d.isNone \/ d.rows = <<>> THEN { [raised |-> TRUE, wrote |-> FALSE] }
    ELSE IF save_path = "" THEN { [raised |-> FALSE, wrote |-> FALSE] }
    ELSE { [raised |-> FALSE, wrote |-> TRUE], [raised |-> TRUE, wrote |-> FALSE] }

\* df.to_csv(csv_filename, index=False): written, or OSError
ToCsv(d) == { [raised |-> FALSE, wrote |-> TRUE], [raised |-> TRUE, wrote |-> FALSE] }

\* `df is not None and not df.empty`
MainGuard(d) == ~d.isNone /\ d.rows # <<>>

\* `df_usd is not None`, `df_eur is not None`
ScriptGuard(d) == ~d.isNone

\* one entry of the log: a step that was attempted, for which currency, on a
\* frame of n rows (-1: None), with which path, and how it ended
Event(step, currency, code, path, n, ok, wrote) ==
    [step |-> step, currency |-> currency, code |-> code, path |-> path,
     n |-> n, ok |-> ok, wrote |-> wrote]

Rows(d) == IF d.isNone THEN -1 ELSE Len(d.rows)

FetchEvent(currency, code, result) ==
    Event("fetch", currency, code, "", Rows(result), ~result.isNone, FALSE)

AnalyzeEvent(currency, d) == Event("analyze", currency, "", "", Rows(d), TRUE, FALSE)

PlotEvent(currency, d, path, o) ==
    Event("plot", currency, CurrencyName(currency), path, Rows(d), ~o.raised, o.wrote)

CsvEvent(currency, d, o) ==
    Event("to_csv", currency, "", CsvFilename(currency), Rows(d), ~o.raised, o.wrote)

----------------------------------------------------------------------------
(* Spec: main() *)

Init ==
    /\ \/ /\ entry = "main"
          /\ args \in [currency : CurrencyInputs, days : DaysInputs, output : OutputInputs]
          /\ pc = "main_parse_args"
       \/ /\ entry = "script"
          /\ args = NoArgs
          /\ pc = "script_get_usd"
    /\ response = NoResponse
    /\ df = None
    /\ df_usd = None
    /\ df_eur = None
    /\ summary = NoSummary
    /\ log = <<>>

\* parser.parse_args(): a currency outside the choices ends the process
MainParseArgs ==
    /\ pc = "main_parse_args"
    /\ pc' = IF args.currency \in CurrencySymbols THEN "main_get" ELSE "usage_error"
    /\ UNCHANGED <<entry, args, response, df, df_usd, df_eur, summary, log>>

\* df = get_currency_rate(currency_code, args.days)
MainGetRate ==
    /\ pc = "main_get"
    /\ \E o \in CallOutcomes(args.days) :
         IF o.raised
         THEN /\ pc' = "crashed"
              /\ UNCHANGED <<df, log>>
         ELSE /\ df' = o.result
              /\ log' = Append(log, FetchEvent(args.currency, CURRENCY_CODES(args.currency), o.result))
              /\ pc' = "main_check"
    /\ UNCHANGED <<entry, args, response, df_usd, df_eur, summary>>

\* the if, and analyze_currency_data(df) in its true branch
MainAnalyze ==
    /\ pc = "main_check"
    /\ IF MainGuard(df)
       THEN /\ summary' = AnalyzeCurrencyData(df)
            /\ log' = Append(log, AnalyzeEvent(args.currency, df))
            /\ pc' = "main_plot"
       ELSE /\ pc' = "done"
            /\ UNCHANGED <<summary, log>>
    /\ UNCHANGED <<entry, args, response, df, df_usd, df_eur>>

\* a plot step whose exception is swallowed, so that the CSV step still runs
MainPlotSwallowed ==
    /\ pc = "main_plot"
    /\ \E o \in PlotCurrencyRate(df, args.output) :
         /\ log' = Append(log, PlotEvent(args.currency, df, args.output, o))
         /\ pc' = "main_csv"
    /\ UNCHANGED <<entry, args, response, df, df_usd, df_eur, summary>>

\* plot_currency_rate(df, currency_name, args.output)
MainPlot ==
    /\ pc = "main_plot"
    /\ \E o \in PlotCurrencyRate(df, args.output) :
         /\ log' = Append(log, PlotEvent(args.currency, df, args.output, o))
         /\ pc' = IF o.raised THEN "crashed" ELSE "main_csv"
    /\ UNCHANGED <<entry, args, response, df, df_usd, df_eur, summary>>

\* df.to_csv(csv_filename, index=False)
MainToCsv ==
    /\ pc = "main_csv"
    /\ \E o \in ToCsv(df) :
         /\ log' = Append(log, CsvEvent(args.currency, df, o))
         /\ pc' = IF o.raised THEN "crashed" ELSE "done"
    /\ UNCHANGED <<entry, args, response, df, df_usd, df_eur, summary>>

----------------------------------------------------------------------------
(* Spec: the __main__ block *)

\* df_usd = get_currency_rate('R01235', 30)
ScriptGetUsd ==
    /\ pc = "script_get_usd"
    /\ \E o \in CallOutcomes(ScriptDays) :
         IF o.raised
         THEN /\ pc' = "crashed"
              /\ UNCHANGED <<df_usd, log>>
         ELSE /\ df_usd' = o.result
              /\ log' = Append(log, FetchEvent("USD", "R01235", o.result))
              /\ pc' = "script_usd"
    /\ UNCHANGED <<entry, args, response, df, df_eur, summary>>

\* if df_usd is not None: analyze, plot to usd_rub_chart.png; the EUR part is
\* inside this if, so the false branch ends the program
ScriptUsd ==
    /\ pc = "script_usd"
    /\ IF ScriptGuard(df_usd)
       THEN /\ summary' = AnalyzeCurrencyData(df_usd)
            /\ \E o \in PlotCurrencyRate(df_usd, "usd_rub_chart.png") :
                 /\ log' = log \o << AnalyzeEvent("USD", df_usd),
                                     PlotEvent("USD", df_usd, "usd_rub_chart.png", o) >>
                 /\ pc' = IF o.raised THEN "crashed" ELSE "script_get_eur"
       ELSE /\ pc' = "done"
            /\ UNCHANGED <<summary, log>>
    /\ UNCHANGED <<entry, args, response, df, df_usd, df_eur>>

\* df_eur = get_currency_rate('R01239', 30)
ScriptGetEur ==
    /\ pc = "script_get_eur"
    /\ \E o \in CallOutcomes(ScriptDays) :
         IF o.raised
         THEN /\ pc' = "crashed"
              /\ UNCHANGED <<df_eur, log>>
         ELSE /\ df_eur' = o.result
              /\ log' = Append(log, FetchEvent("EUR", "R01239", o.result))
              /\ pc' = "script_eur"
    /\ UNCHANGED <<entry, args, response, df, df_usd, summary>>

\* the EUR part pasted from the USD part with df_usd left in place
ScriptEurOnUsdFrame ==
    /\ pc = "script_eur"
    /\ IF ScriptGuard(df_usd)
       THEN /\ summary' = AnalyzeCurrencyData(df_usd)
            /\ \E o \in PlotCurrencyRate(df_usd, "eur_rub_chart.png") :
                 /\ log' = log \o << AnalyzeEvent("EUR", df_usd),
                                     PlotEvent("EUR", df_usd, "eur_rub_chart.png", o) >>
                 /\ pc' = IF o.raised THEN "crashed" ELSE "done"
       ELSE /\ pc' = "done"
            /\ UNCHANGED <<summary, log>>
    /\ UNCHANGED <<entry, args, response, df, df_usd, df_eur>>

\* if df_eur is not None: analyze, plot to eur_rub_chart.png
ScriptEur ==
    /\ pc = "script_eur"
    /\ IF ScriptGuard(df_eur)
       THEN /\ summary' = AnalyzeCurrencyData(df_eur)
            /\ \E o \in PlotCurrencyRate(df_eur, "eur_rub_chart.png") :
                 /\ log' = log \o << AnalyzeEvent("EUR", df_eur),
                                     PlotEvent("EUR", df_eur, "eur_rub_chart.png", o) >>
                 /\ pc' = IF o.raised THEN "crashed" ELSE "done"
       ELSE /\ pc' = "done"
            /\ UNCHANGED <<summary, log>>
    /\ UNCHANGED <<entry, args, response, df, df_usd, df_eur>>

Next ==
    \/ MainParseArgs
    \/ MainGetRate
    \/ MainAnalyze
    \/ MainPlot
    \/ MainToCsv
    \/ ScriptGetUsd
    \/ ScriptUsd
    \/ ScriptGetEur
    \/ ScriptEur

Spec == Init /\ [][Next]_vars

----------------------------------------------------------------------------
(* What the properties below say about records, stated apart from the parser *)

\* the Date attributes that are calendar dates in dd.mm.yyyy
WellFormedDates == { DateText(31, 12, 2023), DateText(1, 1, 2024) }

\* the Value elements that hold one decimal number: "75,5" and "76"
WellFormedValues == { ValueText(<<"7", "5", ",", "5">>), ValueText(<<"7", "6">>) }

WellFormed(rec) == rec.date \in WellFormedDates /\ rec.value \in WellFormedValues

\* the (date, rate) pair a well-formed record stands for
Denoted(rec) ==
    [date |-> <<rec.date.y, rec.date.m, rec.date.d>>,
     rate |-> IF rec.value = ValueText(<<"7", "6">>) THEN 76 * Scale ELSE (755 * Scale) \div 10]

\* a number that grows with the calendar date
DayNumber(date) == date[1] * 372 + date[2] * 31 + date[3]

Count(rows, x) == Cardinality({ i \in 1..Len(rows) : rows[i] = x })

Returned == entry = "call" /\ pc \in { "call_analyze", "call_done" } /\ response.kind # "none"

\* the file name the export of a currency must carry
ExpectedCsvName(c) ==
    CASE c = "USD" -> "usd_rates.csv" [] c = "EUR" -> "eur_rates.csv"
      [] c = "GBP" -> "gbp_rates.csv" [] c = "CNY" -> "cny_rates.csv"

FetchedOk(c) ==
    \E i \in 1..Len(log) : log[i].step = "fetch" /\ log[i].currency = c /\ log[i].ok

Charts(c) ==
    Cardinality({ i \in 1..Len(log) : log[i].step = "plot" /\ log[i].currency = c /\ log[i].wrote })

Csvs(c) ==
    Cardinality({ i \in 1..Len(log) : log[i].step = "to_csv" /\ log[i].currency = c /\ log[i].wrote })

CsvsNamed(c) ==
    Cardinality({ i \in 1..Len(log) : /\ log[i].step = "to_csv"
                                       /\ log[i].wrote
                                       /\ log[i].path = ExpectedCsvName(c) })

StepOrder == << "fetch", "analyze", "plot", "to_csv" >>

----------------------------------------------------------------------------
(* Properties of get_currency_rate and analyze_currency_data (SpecParse) *)

\* C1: a response of N >= 1 well-formed records, in any order, gives a frame of
\* exactly N rows, in non-decreasing date order, holding each (date, rate) pair
\* as many times as the response does.
C1_SortedAndComplete ==
    (/\ Returned
     /\ response.kind = "xml"
     /\ Len(response.records) >= 1
     /\ \A i \in 1..Len(response.records) : WellFormed(response.records[i]))
    => /\ ~df.isNone
       /\ Len(df.rows) = Len(response.records)
       /\ \A i \in 1..(Len(df.rows) - 1) :
            DayNumber(df.rows[i].date) <= DayNumber(df.rows[i + 1].date)
       /\ \A i \in 1..Len(response.records) :
            Count(df.rows, Denoted(response.records[i]))
              = Cardinality({ j \in 1..Len(response.records) :
                                Denoted(response.records[j]) = Denoted(response.records[i]) })

\* three well-formed records, the first two out of date order and two of one date
C1_Witness ==
    /\ Returned
    /\ response.kind = "xml"
    /\ Len(response.records) = 3
    /\ \A i \in 1..3 : WellFormed(response.records[i])
    /\ response.records[1].date = DateText(1, 1, 2024)
    /\ response.records[2].date = DateText(31, 12, 2023)
    /\ response.records[3].date = DateText(1, 1, 2024)
    /\ response.records[1].value # response.records[3].value
    /\ ~df.isNone

\* C2: one malformed record anywhere in the response makes the call return
\* None, never a frame of the well-formed records.
C2_AllOrNothing ==
    (/\ Returned
     /\ response.kind = "xml"
     /\ \E i \in 1..Len(response.records) : ~WellFormed(response.records[i]))
    => df.isNone

\* a malformed record between two well-formed ones
C2_Witness ==
    /\ Returned
    /\ response.kind = "xml"
    /\ Len(response.records) = 3
    /\ WellFormed(response.records[1])
    /\ ~WellFormed(response.records[2])
    /\ WellFormed(response.records[3])
    /\ df.isNone

\* C3: a well-formed response without records gives None; the call never
\* returns a frame of length 0.
C3_NoEmptyFrame ==
    Returned => /\ (df.isNone \/ Len(df.rows) >= 1)
                /\ (response = XmlDoc(<<>>) => df.isNone)

C3_Witness == Returned /\ response = XmlDoc(<<>>) /\ df.isNone

\* C9: on a frame with rows the change is last minus first and the percentage
\* is change / first * 100, both 0 for a single row; on None or a frame
\* without rows nothing is computed.
C9_Analysis ==
    (entry = "call" /\ pc = "call_done")
    => IF ~df.isNone /\ Len(df.rows) >= 1
       THEN LET first == df.rows[1].rate
                last  == df.rows[Len(df.rows)].rate
            IN  /\ summary.computed
                /\ first + summary.change = last
                /\ summary.change_percent.den > 0
                /\ summary.change_percent.num * first
                     = summary.change * 100 * summary.change_percent.den
                /\ Len(df.rows) = 1 =>
                     summary.change = 0 /\ summary.change_percent.num = 0
       ELSE summary = NoSummary

\* an analysed frame whose last rate differs from its first
C9_Witness ==
    /\ entry = "call"
    /\ pc = "call_done"
    /\ ~df.isNone
    /\ Len(df.rows) >= 2
    /\ summary.computed
    /\ summary.change # 0

----------------------------------------------------------------------------
(* Properties of the entry points (Spec) *)

\* C4: a chart or a CSV file is written for a currency only after a fetch for
\* that currency returned a frame.
C4_NoArtifactWithoutSeries ==
    \A i \in 1..Len(log) :
        log[i].wrote =>
            \E j \in 1..(i - 1) :
                log[j].step = "fetch" /\ log[j].currency = log[i].currency /\ log[j].ok

\* the default mode ended after a USD chart and a failed EUR fetch
C4_Witness ==
    /\ entry = "script"
    /\ pc = "done"
    /\ Charts("USD") = 1
    /\ \E i \in 1..Len(log) : log[i].step = "fetch" /\ log[i].currency = "EUR" /\ ~log[i].ok
    /\ Charts("EUR") = 0

\* C5: in the default mode the EUR fetch is attempted whatever the outcome of
\* USD: a run that ended after a failed USD fetch has attempted the EUR fetch.
C5_EurFetchedAfterUsdFailure ==
    (entry = "script" /\ pc = "done" /\ df_usd.isNone)
    => \E i \in 1..Len(log) : log[i].step = "fetch" /\ log[i].currency = "EUR"

\* C6: main given a day count <= 0 issues no request and writes no file.
C6_NonPositiveDaysRejected ==
    (entry = "main" /\ args.days <= 0)
    => \A i \in 1..Len(log) : log[i].step # "fetch" /\ ~log[i].wrote

\* C7: the steps of a main run are fetch, analyze, plot, to_csv in this order,
\* each at most once, and a step runs only after every earlier step succeeded.
C7_MainStepOrder ==
    entry = "main"
    => /\ Len(log) <= Len(StepOrder)
       /\ \A i \in 1..Len(log) : log[i].step = StepOrder[i]
       /\ \A i \in 2..Len(log) : log[i - 1].ok

\* a main run that stopped at a failed chart, with no CSV step after it
C7_Witness ==
    /\ entry = "main"
    /\ pc = "crashed"
    /\ Len(log) = 3
    /\ log[3].step = "plot"
    /\ ~log[3].ok

C10_PlotOnlyNonEmpty ==
    \A i \in 1..Len(log) : log[i].step = "plot" => log[i].n >= 1

\* the default mode has plotted a frame
C10_Witness ==
    /\ entry = "script"
    /\ \E i \in 1..Len(log) : log[i].step = "plot" /\ log[i].n >= 1

=============================================================================
